---- MODULE Spec2Model ----
(***************************************************************************)
(* Picture-description enrichment stage of docling:                        *)
(*   PictureDescriptionBaseModel      (picture_description_base_model.py)  *)
(*   PictureDescriptionApiModel       (picture_description_api_model.py)   *)
(*   PictureDescriptionLlamaStackApiModel                                  *)
(*                          (picture_description_llama_stack_api_model.py) *)
(*                                                                         *)
(* Strings are sequences of one-character strings, so that strip() and     *)
(* "\n".join() are computed and not assumed.                               *)
(***************************************************************************)
EXTENDS Integers, Sequences, FiniteSets, TLC

\* ------------------------------------------------------------------ bounds
MaxDocLen == 5
MaxWindow == 2
MaxBatch == 3
MaxCalls == 2

\* ----------------------------------------------------------------- strings
IsSpace(c) == c \in {" ", "\n"}

RECURSIVE LStrip(_)
LStrip(t) == IF t = <<>> THEN <<>>
             ELSE IF IsSpace(Head(t)) THEN LStrip(Tail(t)) ELSE t

RECURSIVE RStrip(_)
RStrip(t) == IF t = <<>> THEN <<>>
             ELSE IF IsSpace(t[Len(t)]) THEN RStrip(SubSeq(t, 1, Len(t) - 1)) ELSE t

\* str.strip()
Strip(t) == RStrip(LStrip(t))

\* the truth value of `text and text.strip()`
NonBlank(t) == t # <<>> /\ Strip(t) # <<>>

\* "\n".join(context)
RECURSIVE Join(_)
Join(frags) == IF frags = <<>> THEN <<>>
               ELSE IF Len(frags) = 1 THEN frags[1]
               ELSE frags[1] \o <<"\n">> \o Join(Tail(frags))

\* seq[-n:] for n > 0
LastN(s, n) == SubSeq(s, IF Len(s) - n + 1 < 1 THEN 1 ELSE Len(s) - n + 1, Len(s))

\* ------------------------------------------------------------ document items
\* A NodeItem of doc.iterate_items(): a text item carries its text; a picture
\* has no text attribute, so getattr(item, "text", "") gives "".
TextItem(r, t) == [kind |-> "text", ref |-> r, text |-> t]
PictureItem(r) == [kind |-> "picture", ref |-> r, text |-> <<>>]

\* getattr(item, "text", "")
ItemText(item) == item.text


\* ------------------------------------------------------------------ state
\* doc         the items of doc.iterate_items(), in order
\* pages       doc.pages: page_no -> size
\* prov        ref -> the prov list of the picture (at most one record)
\* annotations ref -> picture.annotations
\* options     self.options
\* model       the backend instance: class, enabled, enable_remote_services and
\*             how its constructor ended
\* gen         the generator returned by the current __call__ and its locals
\* out         the items that generator has yielded
\* requests    the HTTP requests that call has issued
\* log         the response bodies that call has logged with _log.error
\* calls       the number of __call__ invocations so far
\* hist        bookkeeping of the calls: annotations when the current call began
\*             (start), the descriptions its backend has yielded (descs), per
\*             picture the completed calls that selected it (selected), and
\*             whether every call so far ran to completion (all_completed)
\* scan        the locals of one _get_surrounding_text run (scan specification)
VARIABLES doc, pages, prov, annotations, options, model, gen, out, requests, log,
          calls, hist, scan

vars == <<doc, pages, prov, annotations, options, model, gen, out, requests, log,
          calls, hist, scan>>

docVars == <<doc, pages, prov, options>>

\* ------------------------------------------------- _get_surrounding_text
\* the locals of _get_surrounding_text before the loop
ScanStart == [found_picture |-> FALSE, after_count |-> 0,
              text_items_before_picture |-> <<>>,
              text_items_after_picture |-> <<>>,
              visited |-> 0, stopped |-> FALSE]

\* ScanStep without the break of lines 97-99
ScanStep_NoBreak(st, item, picture_item, after) ==
    LET v == [st EXCEPT !.visited = @ + 1] IN
    IF item = picture_item
    THEN [v EXCEPT !.found_picture = TRUE]
    ELSE IF ~v.found_picture
         THEN IF NonBlank(ItemText(item))
              THEN [v EXCEPT !.text_items_before_picture = Append(@, ItemText(item))]
              ELSE v
         ELSE IF v.after_count < after /\ NonBlank(ItemText(item))
              THEN [v EXCEPT !.text_items_after_picture = Append(@, ItemText(item)),
                             !.after_count = @ + 1]
              ELSE v

\* one iteration of `for item, _ in doc.iterate_items()`
ScanStep(st, item, picture_item, after) ==
    LET v == [st EXCEPT !.visited = @ + 1] IN
    IF item = picture_item
    THEN [v EXCEPT !.found_picture = TRUE]            \* continue: no break test
    ELSE LET w == IF ~v.found_picture
                  THEN IF NonBlank(ItemText(item))
                       THEN [v EXCEPT !.text_items_before_picture = Append(@, ItemText(item))]
                       ELSE v
                  ELSE IF v.after_count < after /\ NonBlank(ItemText(item))
                       THEN [v EXCEPT !.text_items_after_picture = Append(@, ItemText(item)),
                                      !.after_count = @ + 1]
                       ELSE v
         IN [w EXCEPT !.stopped = (w.after_count >= after)]

\* the loop, from item i on, until the break or the end of the items
RECURSIVE ScanLoop(_, _, _, _, _)
ScanLoop(items, i, st, picture_item, after) ==
    IF i > Len(items) \/ st.stopped THEN st
    ELSE ScanLoop(items, i + 1, ScanStep(st, items[i], picture_item, after),
                  picture_item, after)

\* ScanResult with text_items_before_picture[:N] in place of [-N:]
ScanResult_FirstN(st, before, after) ==
    LET t == st.text_items_before_picture
        b == IF before > 0
             THEN SubSeq(t, 1, IF before < Len(t) THEN before ELSE Len(t)) ELSE <<>>
        a == IF after > 0 THEN st.text_items_after_picture ELSE <<>>
    IN Join(b \o a)

\* lines 101-116: combine the two buffers and join
ScanResult(st, before, after) ==
    LET b == IF before > 0 THEN LastN(st.text_items_before_picture, before) ELSE <<>>
        a == IF after > 0 THEN st.text_items_after_picture ELSE <<>>
    IN Join(b \o a)

get_surrounding_text(items, picture_item, before, after) ==
    ScanResult(ScanLoop(items, 1, ScanStart, picture_item, after), before, after)


\* ------------------------------------------------------ the main document
MainDoc == << TextItem(1, <<"a">>),
              PictureItem(2),
              TextItem(3, <<" ">>),
              PictureItem(4),
              TextItem(5, <<" ", "b">>),
              PictureItem(6),
              PictureItem(7),
              TextItem(8, <<"c">>) >>

\* the document as it is, or without the text that follows its last picture
MainDocs == {MainDoc, SubSeq(MainDoc, 1, Len(MainDoc) - 1)}

MainPages == (1 :> [width |-> 10, height |-> 10]) @@ (2 :> [width |-> 0, height |-> 10])

\* bbox.area() of picture 4, on a page of area 100
BboxAreas == {4, 5}

\* picture 2 has no provenance, picture 4 covers a% of page 1, picture 6 is on
\* a page that doc.pages does not hold, picture 7 on a page of area zero
MainProv(a) ==
            (2 :> <<>>) @@
            (4 :> <<[page_no |-> 1, bbox_area |-> a]>>) @@
            (6 :> <<[page_no |-> 3, bbox_area |-> 50]>>) @@
            (7 :> <<[page_no |-> 2, bbox_area |-> 50]>>)

PictureRefs == {2, 4, 6, 7}

\* self.options.prompt
Prompt == <<"P">>

\* picture_area_threshold, in hundredths
Thresholds == {0, 5, 100}

WindowPairs == {<<0, 0>>, <<1, 0>>, <<0, 1>>, <<MaxWindow, 1>>}

MainOptions == {[text_context_window_size_before_picture |-> w[1],
                 text_context_window_size_after_picture |-> w[2],
                 picture_area_threshold |-> t] : w \in WindowPairs, t \in Thresholds}

\* an ItemAndImageEnrichmentElement: el.item is the document item with that ref,
\* el.image the rendering of it
ItemOf(ref) == CHOOSE it \in {doc[i] : i \in DOMAIN doc} : it.ref = ref
ImageOf(ref) == ref

\* element batches: items of the document in document order, at most MaxBatch
BatchRefs == {2, 4, 5, 6, 7}

RECURSIVE SeqOfSet(_)
SeqOfSet(S) == IF S = {} THEN <<>>
               ELSE LET m == CHOOSE x \in S : \A y \in S : x <= y
                    IN <<m>> \o SeqOfSet(S \ {m})

Batches == {SeqOfSet(S) : S \in {T \in SUBSET BatchRefs : Cardinality(T) \in 1..MaxBatch}}

IsPicture(ref) == ItemOf(ref).kind = "picture"

\* the document's pictures carry no annotation yet, or picture 4 carries one
\* from an earlier enrichment
NoAnnotations == [r \in PictureRefs |-> <<>>]
InitialAnnotations ==
    {NoAnnotations,
     [NoAnnotations EXCEPT ![4] = <<[text |-> <<"o">>, provenance |-> "earlier"]>>]}

GenNone == [pc |-> "none", batch |-> <<>>, pos |-> 0, pictures |-> <<>>,
            image_context_map |-> <<>>, idx |-> 0, error |-> "none",
            surrounding_text_calls |-> <<>>, dispatch |-> "none"]

HistStart == [start |-> NoAnnotations, descs |-> <<>>,
              selected |-> [r \in PictureRefs |-> 0], all_completed |-> TRUE]

ScanIdle == [pc |-> "idle", picture_item |-> PictureItem(0), st |-> ScanStart,
             result |-> <<>>]

Init ==
    /\ doc \in MainDocs
    /\ pages = MainPages
    /\ prov \in {MainProv(a) : a \in BboxAreas}
    /\ annotations \in InitialAnnotations
    /\ options \in MainOptions
    /\ model = [class |-> "none", enabled |-> FALSE, enable_remote_services |-> FALSE,
                state |-> "unconstructed", provenance |-> "none"]
    /\ gen = GenNone
    /\ out = <<>>
    /\ requests = <<>>
    /\ log = <<>>
    /\ calls = 0
    /\ hist = [HistStart EXCEPT !.start = annotations]
    /\ scan = ScanIdle

\* ------------------------------------------------------------ constructors
BackendClasses == {"PictureDescriptionApiModel", "PictureDescriptionLlamaStackApiModel"}

\* Construct without the enable_remote_services gate
Construct_Ungated(cls, enabled, enable_remote_services) ==
    /\ model.state = "unconstructed"
    /\ model' = [class |-> cls, enabled |-> enabled,
                 enable_remote_services |-> enable_remote_services,
                 state |-> "constructed", provenance |-> "not-implemented"]
    /\ UNCHANGED <<docVars, annotations, gen, out, requests, log, calls, hist, scan>>

\* __init__ of the two remote backends: the base constructor, then the gate
Construct(cls, enabled, enable_remote_services) ==
    /\ model.state = "unconstructed"
    /\ model' = [class |-> cls, enabled |-> enabled,
                 enable_remote_services |-> enable_remote_services,
                 state |-> IF enabled /\ ~enable_remote_services
                           THEN "OperationNotAllowed" ELSE "constructed",
                 provenance |-> "not-implemented"]
    /\ UNCHANGED <<docVars, annotations, gen, out, requests, log, calls, hist, scan>>

\* ---------------------------------------------------------------- __call__
\* describe_image with `<=` in place of `<` at line 142
describe_image_Strict(ref) ==
    IF Len(prov[ref]) > 0
    THEN LET p == prov[ref][1] IN
         IF p.page_no \in DOMAIN pages
         THEN LET page_area == pages[p.page_no].width * pages[p.page_no].height IN
              IF page_area > 0
              THEN ~(p.bbox_area * 100 <= options.picture_area_threshold * page_area)
              ELSE TRUE
         ELSE TRUE
    ELSE TRUE

\* describe_image that drops a picture whose page is not in doc.pages
describe_image_PageRequired(ref) ==
    IF Len(prov[ref]) > 0
    THEN LET p == prov[ref][1] IN
         IF p.page_no \in DOMAIN pages
         THEN LET page_area == pages[p.page_no].width * pages[p.page_no].height IN
              IF page_area > 0
              THEN ~(p.bbox_area * 100 < options.picture_area_threshold * page_area)
              ELSE TRUE
         ELSE FALSE
    ELSE TRUE

\* lines 133-143: the area filter
describe_image(ref) ==
    IF Len(prov[ref]) > 0
    THEN LET p == prov[ref][1] IN
         IF p.page_no \in DOMAIN pages
         THEN LET page_area == pages[p.page_no].width * pages[p.page_no].height IN
              IF page_area > 0
              THEN ~(p.bbox_area * 100 < options.picture_area_threshold * page_area)
              ELSE TRUE
         ELSE TRUE
    ELSE TRUE

\* the window test with `and` in place of `or`
UseContext_Both == /\ options.text_context_window_size_before_picture > 0
                   /\ options.text_context_window_size_after_picture > 0

\* lines 147-150 and 155-158
UseContext == \/ options.text_context_window_size_before_picture > 0
              \/ options.text_context_window_size_after_picture > 0

\* lines 146-152
ContextOf(ref) ==
    IF UseContext
    THEN get_surrounding_text(doc, ItemOf(ref),
                              options.text_context_window_size_before_picture,
                              options.text_context_window_size_after_picture)
    ELSE <<>>

\* SelectedOf without the `if describe_image` of line 144
SelectedOf_Unfiltered(batch) == batch

\* lines 131-153: the lists the loop over element_batch builds
SelectedOf(batch) == SelectSeq(batch, describe_image)
ImageContextMapOf(batch) ==
    LET s == SelectedOf(batch) IN [i \in 1..Len(s) |-> <<ImageOf(s[i]), ContextOf(s[i])>>]

\* line 132 fails for some element of the batch
AssertFails(batch) == \E i \in 1..Len(batch) : ~IsPicture(batch[i])

\* the elements the loop handles before line 132 fails
BeforeAssert(batch) ==
    SubSeq(batch, 1, (CHOOSE i \in 1..Len(batch) :
                         ~IsPicture(batch[i]) /\ \A j \in 1..(i - 1) : IsPicture(batch[j])) - 1)

\* lines 147-152: the pictures _get_surrounding_text is invoked for, in order
SurroundingTextCallsOf(batch) == IF UseContext THEN SelectedOf(batch) ELSE <<>>

\* lines 155-163: the backend method that produces picture_descriptions
DispatchOf == IF UseContext THEN "_annotate_with_context" ELSE "_annotate_images"

\* the generator object is created; no line of __call__ has run yet
StartCall(batch) ==
    /\ model.state = "constructed"
    /\ calls' = calls + 1
    /\ gen' = [GenNone EXCEPT !.pc = "created", !.batch = batch]
    /\ out' = <<>>
    /\ requests' = <<>>
    /\ log' = <<>>
    /\ hist' = [hist EXCEPT !.start = annotations, !.descs = <<>>,
                            !.all_completed = @ /\ gen.pc \in {"none", "done"}]
    /\ UNCHANGED <<docVars, annotations, model, scan>>

\* the call of the model on one batch
Call(batch) ==
    /\ gen.pc = "none"
    /\ StartCall(batch)

\* a further enrichment run over the same document, whenever the caller is
\* not inside a pull of the previous one
CallAgain(batch) ==
    /\ gen.pc # "request"
    /\ calls < MaxCalls
    /\ StartCall(batch)

\* PullDisabled that applies the area filter to what it passes through
PullDisabled_Filtering ==
    /\ gen.pc \in {"created", "yielded"}
    /\ ~model.enabled
    /\ IF gen.pos < Len(gen.batch)
       THEN /\ out' = IF IsPicture(gen.batch[gen.pos + 1]) /\ describe_image(gen.batch[gen.pos + 1])
                      THEN Append(out, gen.batch[gen.pos + 1]) ELSE out
            /\ gen' = [gen EXCEPT !.pc = "yielded", !.pos = @ + 1]
            /\ hist' = hist
       ELSE /\ out' = out
            /\ gen' = [gen EXCEPT !.pc = "done"]
            /\ hist' = hist
    /\ UNCHANGED <<docVars, annotations, model, requests, log, calls, scan>>

\* lines 123-126: a pull on the generator of a disabled model
PullDisabled ==
    /\ gen.pc \in {"created", "yielded"}
    /\ ~model.enabled
    /\ IF gen.pos < Len(gen.batch)
       THEN /\ out' = Append(out, gen.batch[gen.pos + 1])
            /\ gen' = [gen EXCEPT !.pc = "yielded", !.pos = @ + 1]
            /\ hist' = hist
       ELSE /\ out' = out
            /\ gen' = [gen EXCEPT !.pc = "done"]
            /\ hist' = hist
    /\ UNCHANGED <<docVars, annotations, model, requests, log, calls, scan>>

\* PromptFor that falls back to the plain prompt when the context is empty
PromptFor_SkipEmpty(cls, use_context, context) ==
    IF use_context /\ cls = "PictureDescriptionApiModel" /\ context # <<>>
    THEN context \o <<"\n">> \o Prompt
    ELSE Prompt

\* the prompt of the request for entry i of image_context_map: the API model
\* overrides _annotate_with_context, the Llama Stack model inherits the base
\* one, which drops the context and calls _annotate_images
PromptFor(cls, use_context, context) ==
    IF use_context /\ cls = "PictureDescriptionApiModel"
    THEN context \o <<"\n">> \o Prompt
    ELSE Prompt

\* a request whose response has not arrived
NoResponse == [status |-> "pending", content |-> <<>>]

RequestFor(g, i) ==
    [image |-> g.image_context_map[i][1],
     prompt |-> PromptFor(model.class, UseContext, g.image_context_map[i][2]),
     response |-> NoResponse]

\* Advance that issues the requests of all remaining pictures at once
Advance_Eager(g) ==
    IF g.idx < Len(g.pictures)
    THEN /\ gen' = [g EXCEPT !.pc = "request"]
         /\ requests' = requests \o [i \in 1..(Len(g.pictures) - Len(requests)) |->
                                         RequestFor(g, Len(requests) + i)]
         /\ hist' = hist
    ELSE /\ gen' = [g EXCEPT !.pc = "done"]
         /\ requests' = requests
         /\ hist' = [hist EXCEPT !.selected =
                        [r \in PictureRefs |->
                            @[r] + Cardinality({i \in 1..Len(g.pictures) : g.pictures[i] = r})]]

\* zip() asks for the next picture and then for the next description: the
\* backend generator runs up to its next request
Advance(g) ==
    IF g.idx < Len(g.pictures)
    THEN /\ gen' = [g EXCEPT !.pc = "request"]
         /\ requests' = Append(requests, RequestFor(g, g.idx + 1))
         /\ hist' = hist
    ELSE /\ gen' = [g EXCEPT !.pc = "done"]
         /\ requests' = requests
         /\ hist' = [hist EXCEPT !.selected =
                        [r \in PictureRefs |->
                            @[r] + Cardinality({i \in 1..Len(g.pictures) : g.pictures[i] = r})]]

\* PullFirst that skips the elements that are not pictures
PullFirst_NoAssert ==
    LET batch == SelectSeq(gen.batch, IsPicture) IN
    /\ gen.pc = "created"
    /\ model.enabled
    /\ Advance([gen EXCEPT !.pictures = SelectedOf(batch),
                           !.image_context_map = ImageContextMapOf(batch),
                           !.surrounding_text_calls = SurroundingTextCallsOf(batch),
                           !.dispatch = DispatchOf])
    /\ UNCHANGED <<docVars, annotations, model, out, log, calls, scan>>

\* the first pull of an enabled model: lines 128-163, then the zip loop's
\* first step
PullFirst ==
    /\ gen.pc = "created"
    /\ model.enabled
    /\ IF AssertFails(gen.batch)
       THEN /\ gen' = [gen EXCEPT !.pc = "raised", !.error = "AssertionError",
                                   !.surrounding_text_calls =
                                       SurroundingTextCallsOf(BeforeAssert(gen.batch))]
            /\ UNCHANGED <<requests, hist>>
       ELSE Advance([gen EXCEPT !.pictures = SelectedOf(gen.batch),
                                !.image_context_map = ImageContextMapOf(gen.batch),
                                !.surrounding_text_calls = SurroundingTextCallsOf(gen.batch),
                                !.dispatch = DispatchOf])
    /\ UNCHANGED <<docVars, annotations, model, out, log, calls, scan>>

\* a later pull: the generator resumes after line 169
PullNext ==
    /\ gen.pc = "yielded"
    /\ model.enabled
    /\ Advance(gen)
    /\ UNCHANGED <<docVars, annotations, model, out, log, calls, scan>>

\* what the endpoint can answer
Contents == {<<" ", "d">>, <<" ">>}
Responses == [status : {"ok"}, content : Contents]
             \cup {[status |-> "http_error", content |-> <<"e">>],
                   [status |-> "malformed", content |-> <<>>]}

\* llama_stack_response without r.raise_for_status()
llama_stack_response_NoRaise(resp) ==
    IF resp.status = "http_error"
    THEN [kind |-> "yield", error |-> "none", logged |-> <<resp.content>>,
          text |-> Strip(resp.content)]
    ELSE IF resp.status = "malformed"
    THEN [kind |-> "raise", error |-> "ValidationError", logged |-> <<>>, text |-> <<>>]
    ELSE [kind |-> "yield", error |-> "none", logged |-> <<>>,
          text |-> Strip(resp.content)]

\* PictureDescriptionLlamaStackApiModel._annotate_images, lines 124-130: what
\* the loop body does with the response r of requests.post
llama_stack_response(resp) ==
    IF resp.status = "http_error"          \* not r.ok: log, raise_for_status raises
    THEN [kind |-> "raise", error |-> "HTTPError", logged |-> <<resp.content>>,
          text |-> <<>>]
    ELSE IF resp.status = "malformed"      \* model_validate_json raises
    THEN [kind |-> "raise", error |-> "ValidationError", logged |-> <<>>, text |-> <<>>]
    ELSE [kind |-> "yield", error |-> "none", logged |-> <<>>,
          text |-> Strip(resp.content)]

\* docling.utils.api_image_request, which the API model calls per image
api_image_request(resp) ==
    IF resp.status = "http_error"
    THEN [kind |-> "raise", error |-> "HTTPError", logged |-> <<resp.content>>,
          text |-> <<>>]
    ELSE IF resp.status = "malformed"
    THEN [kind |-> "raise", error |-> "ValidationError", logged |-> <<>>, text |-> <<>>]
    ELSE [kind |-> "yield", error |-> "none", logged |-> <<>>,
          text |-> Strip(resp.content)]

BackendOutcome(cls, resp) ==
    IF cls = "PictureDescriptionLlamaStackApiModel"
    THEN llama_stack_response(resp) ELSE api_image_request(resp)

\* Merge that pairs the descriptions with the pictures from the other end
Merge_Reversed(g, description) ==
    LET picture == g.pictures[Len(g.pictures) - g.idx] IN
    /\ annotations' = [annotations EXCEPT ![picture] =
                          Append(@, [text |-> description, provenance |-> model.provenance])]
    /\ out' = Append(out, picture)
    /\ gen' = [g EXCEPT !.pc = "yielded", !.idx = @ + 1]
    /\ hist' = [hist EXCEPT !.descs = Append(@, description)]

\* Merge that replaces the picture's annotations by the new one
Merge_Replacing(g, description) ==
    LET picture == g.pictures[g.idx + 1] IN
    /\ annotations' = [annotations EXCEPT ![picture] =
                          <<[text |-> description, provenance |-> model.provenance]>>]
    /\ out' = Append(out, picture)
    /\ gen' = [g EXCEPT !.pc = "yielded", !.idx = @ + 1]
    /\ hist' = [hist EXCEPT !.descs = Append(@, description)]

\* Merge that appends the annotation twice
Merge_Doubling(g, description) ==
    LET picture == g.pictures[g.idx + 1]
        ann == [text |-> description, provenance |-> model.provenance] IN
    /\ annotations' = [annotations EXCEPT ![picture] = Append(Append(@, ann), ann)]
    /\ out' = Append(out, picture)
    /\ gen' = [g EXCEPT !.pc = "yielded", !.idx = @ + 1]
    /\ hist' = [hist EXCEPT !.descs = Append(@, description)]

\* Merge that appends the annotation to every picture of the document
Merge_Spill(g, description) ==
    LET picture == g.pictures[g.idx + 1] IN
    /\ annotations' = [r \in PictureRefs |->
                          Append(annotations[r],
                                 [text |-> description, provenance |-> model.provenance])]
    /\ out' = Append(out, picture)
    /\ gen' = [g EXCEPT !.pc = "yielded", !.idx = @ + 1]
    /\ hist' = [hist EXCEPT !.descs = Append(@, description)]

\* lines 165-169: one description is merged and its picture yielded
Merge(g, description) ==
    LET picture == g.pictures[g.idx + 1] IN
    /\ annotations' = [annotations EXCEPT ![picture] =
                          Append(@, [text |-> description, provenance |-> model.provenance])]
    /\ out' = Append(out, picture)
    /\ gen' = [g EXCEPT !.pc = "yielded", !.idx = @ + 1]
    /\ hist' = [hist EXCEPT !.descs = Append(@, description)]

\* Respond that skips a picture whose description failed and goes on
Respond_Isolating(resp) ==
    LET o == BackendOutcome(model.class, resp) IN
    /\ gen.pc = "request"
    /\ requests' = [requests EXCEPT ![Len(requests)].response = resp]
    /\ log' = log \o o.logged
    /\ IF o.kind = "raise"
       THEN /\ gen' = [gen EXCEPT !.pc = "yielded", !.idx = @ + 1]
            /\ out' = Append(out, gen.pictures[gen.idx + 1])
            /\ UNCHANGED <<annotations, hist>>
       ELSE Merge(gen, o.text)
    /\ UNCHANGED <<docVars, model, calls, scan>>

\* the response of the request in flight arrives: the backend generator raises
\* or yields a description, which __call__ merges
Respond(resp) ==
    LET o == BackendOutcome(model.class, resp) IN
    /\ gen.pc = "request"
    /\ requests' = [requests EXCEPT ![Len(requests)].response = resp]
    /\ log' = log \o o.logged
    /\ IF o.kind = "raise"
       THEN /\ gen' = [gen EXCEPT !.pc = "raised", !.error = o.error]
            /\ UNCHANGED <<annotations, out, hist>>
       ELSE Merge(gen, o.text)
    /\ UNCHANGED <<docVars, model, calls, scan>>

Next ==
    \/ \E cls \in BackendClasses, e \in BOOLEAN, r \in BOOLEAN : Construct(cls, e, r)
    \/ \E batch \in Batches : Call(batch)
    \/ PullDisabled
    \/ PullFirst
    \/ PullNext
    \/ \E resp \in Responses : Respond(resp)

Spec == Init /\ [][Next]_vars

\* The same machine with up to MaxCalls calls, for the claims about re-runs:
\* batches over the pictures 2, 4 and 6, one threshold, two window pairs.
RerunBatches == {b \in Batches : \A i \in 1..Len(b) : b[i] \in {2, 4, 6}}

InitRerun ==
    /\ Init
    /\ doc = MainDoc
    /\ annotations = NoAnnotations
    /\ options.picture_area_threshold = 5
    /\ <<options.text_context_window_size_before_picture,
         options.text_context_window_size_after_picture>> \in {<<0, 0>>, <<MaxWindow, 1>>}

NextRerun ==
    \/ \E cls \in BackendClasses, e \in BOOLEAN, r \in BOOLEAN : Construct(cls, e, r)
    \/ \E batch \in RerunBatches : CallAgain(batch)
    \/ PullDisabled
    \/ PullFirst
    \/ PullNext
    \/ \E resp \in Responses : Respond(resp)

SpecRerun == InitRerun /\ [][NextRerun]_vars

\* ---------------------------------------- documents of the scan specification
CtxKinds == {"a", "b", "ws", "other", "pic"}

CtxItem(k, i) ==
    CASE k = "a" -> TextItem(i, <<"a">>)
      [] k = "b" -> TextItem(i, <<" ", "b">>)
      [] k = "ws" -> TextItem(i, <<" ">>)
      [] k = "other" -> PictureItem(i + 100)
      [] k = "pic" -> PictureItem(i)

CtxShapes == UNION {[1..n -> CtxKinds] : n \in 1..MaxDocLen}

CtxDocs == {[i \in DOMAIN s |-> CtxItem(s[i], i)] :
              s \in {t \in CtxShapes : Cardinality({i \in DOMAIN t : t[i] = "pic"}) <= 1}}

\* the target picture of a scan document (a picture that is not in it, if none)
CtxTarget(d) ==
    IF \E i \in DOMAIN d : d[i].kind = "picture" /\ d[i].ref = i
    THEN PictureItem(CHOOSE i \in DOMAIN d : d[i].kind = "picture" /\ d[i].ref = i)
    ELSE PictureItem(0)

Windows == 0..MaxWindow

InitCtx ==
    /\ doc \in CtxDocs
    /\ options \in [text_context_window_size_before_picture : Windows,
                    text_context_window_size_after_picture : Windows,
                    picture_area_threshold : {5}]
    /\ scan = [pc |-> "loop", picture_item |-> CtxTarget(doc), st |-> ScanStart,
               result |-> <<>>]
    /\ pages = MainPages
    /\ prov = MainProv(5)
    /\ annotations = NoAnnotations
    /\ model = [class |-> "none", enabled |-> FALSE, enable_remote_services |-> FALSE,
                state |-> "unconstructed", provenance |-> "none"]
    /\ gen = GenNone
    /\ out = <<>>
    /\ requests = <<>>
    /\ log = <<>>
    /\ calls = 0
    /\ hist = HistStart

\* one loop iteration of the scan
ScanItem ==
    /\ scan.pc = "loop"
    /\ scan.st.visited < Len(doc)
    /\ ~scan.st.stopped
    /\ scan' = [scan EXCEPT !.st = ScanStep(@, doc[scan.st.visited + 1], scan.picture_item,
                                          options.text_context_window_size_after_picture)]
    /\ UNCHANGED <<docVars, annotations, model, gen, out, requests, log, calls, hist>>

\* the loop is left (break or exhaustion) and the context is returned
ScanReturn ==
    /\ scan.pc = "loop"
    /\ scan.st.visited >= Len(doc) \/ scan.st.stopped
    /\ scan' = [scan EXCEPT !.pc = "returned",
                            !.result = ScanResult(scan.st,
                                          options.text_context_window_size_before_picture,
                                          options.text_context_window_size_after_picture)]
    /\ UNCHANGED <<docVars, annotations, model, gen, out, requests, log, calls, hist>>

NextCtx == ScanItem \/ ScanReturn

SpecCtx == InitCtx /\ [][NextCtx]_vars

\* ================================================================ properties
\* What the documentation says, stated without the code's loop or filter.

Min(a, b) == IF a < b THEN a ELSE b

InDoc(d, p) == \E i \in DOMAIN d : d[i] = p
PosIn(d, p) == CHOOSE i \in DOMAIN d : d[i] = p

\* the texts of the non-empty (after trimming) text items of s, in order
RECURSIVE NonBlankTextsOf(_)
NonBlankTextsOf(s) ==
    IF s = <<>> THEN <<>>
    ELSE (IF NonBlank(Head(s).text) THEN <<Head(s).text>> ELSE <<>>)
         \o NonBlankTextsOf(Tail(s))

PrecedingTexts(d, p) == NonBlankTextsOf(SubSeq(d, 1, PosIn(d, p) - 1))
FollowingTexts(d, p) == NonBlankTextsOf(SubSeq(d, PosIn(d, p) + 1, Len(d)))

TakeLast(s, n) == [j \in 1..Min(n, Len(s)) |-> s[Len(s) - Min(n, Len(s)) + j]]
TakeFirst(s, m) == [j \in 1..Min(m, Len(s)) |-> s[j]]

\* the last n preceding and the first m following texts, newline-joined
WindowContext(d, p, n, m) ==
    Join(TakeLast(PrecedingTexts(d, p), n) \o TakeFirst(FollowingTexts(d, p), m))

WBefore == options.text_context_window_size_before_picture
WAfter == options.text_context_window_size_after_picture

\* a picture whose area fraction can be computed
Evaluable(ref) ==
    /\ Len(prov[ref]) > 0
    /\ prov[ref][1].page_no \in DOMAIN pages
    /\ pages[prov[ref][1].page_no].width * pages[prov[ref][1].page_no].height > 0

PageArea(ref) == pages[prov[ref][1].page_no].width * pages[prov[ref][1].page_no].height

\* bbox_area / page_area >= picture_area_threshold (threshold in hundredths)
MeetsThreshold(ref) ==
    prov[ref][1].bbox_area * 100 >= options.picture_area_threshold * PageArea(ref)

PassesFilter(ref) == Evaluable(ref) => MeetsThreshold(ref)

\* the batch pictures that pass the area filter, in batch order
RECURSIVE Passing(_)
Passing(batch) ==
    IF batch = <<>> THEN <<>>
    ELSE (IF PassesFilter(Head(batch)) THEN <<Head(batch)>> ELSE <<>>) \o Passing(Tail(batch))

Occurs(x, s) == \E i \in 1..Len(s) : s[i] = x

IsPrefix(s, t) == Len(s) <= Len(t) /\ SubSeq(t, 1, Len(s)) = s

TextsOf(anns) == [j \in 1..Len(anns) |-> anns[j].text]

\* the loop over element_batch of an enabled call has run without an assertion
\* failure
Filtered ==
    /\ model.enabled
    /\ \/ gen.pc \in {"request", "yielded", "done"}
       \/ gen.pc = "raised" /\ gen.error # "AssertionError"

Llama == "PictureDescriptionLlamaStackApiModel"

\* C1: on both dispatch paths the i-th description the backend produces is the
\* answer to the request for the image of the i-th filter-passing batch
\* picture, and it is appended to that picture and to no other.
C1_OrderPreserved ==
    Filtered =>
        LET sel == Passing(gen.batch) IN
        /\ Len(requests) <= Len(sel)
        /\ Len(hist.descs) <= Len(requests)
        /\ \A i \in 1..Len(requests) : requests[i].image = ImageOf(sel[i])
        /\ \A i \in 1..Len(hist.descs) :
              hist.descs[i] = Strip(requests[i].response.content)
        /\ \A r \in PictureRefs :
              TextsOf(annotations[r]) =
                 TextsOf(hist.start[r]) \o
                 (IF \E i \in 1..Len(hist.descs) : sel[i] = r
                  THEN <<hist.descs[CHOOSE i \in 1..Len(hist.descs) : sel[i] = r]>>
                  ELSE <<>>)

C1_Witness ==
    /\ Filtered /\ gen.pc = "done" /\ UseContext
    /\ gen.batch = <<2, 4, 6>> /\ ~PassesFilter(4)
    /\ Len(hist.descs) = 2 /\ hist.descs[1] # hist.descs[2]
    /\ TextsOf(annotations[6]) = <<hist.descs[2]>>

\* C2: with both window sizes positive the context of a picture that is in
\* the document is the newline-join of the last N non-empty texts before it
\* and the first M non-empty texts after it, in document order.
C2_WindowBothPositive ==
    (scan.pc = "returned" /\ InDoc(doc, scan.picture_item) /\ WBefore > 0 /\ WAfter > 0)
        => scan.result = WindowContext(doc, scan.picture_item, WBefore, WAfter)

C2_Witness ==
    /\ scan.pc = "returned" /\ InDoc(doc, scan.picture_item)
    /\ WBefore = 2 /\ WAfter = 1
    /\ Len(PrecedingTexts(doc, scan.picture_item)) = 3
    /\ Len(FollowingTexts(doc, scan.picture_item)) >= 1
    /\ scan.result = Join(<<PrecedingTexts(doc, scan.picture_item)[2],
                            PrecedingTexts(doc, scan.picture_item)[3],
                            FollowingTexts(doc, scan.picture_item)[1]>>)

\* C3: with exactly one window size zero only that side's text is missing:
\* before=N>0, after=0 gives the last N non-empty texts before the picture,
\* before=0, after=M>0 the first M non-empty texts after it.
C3_OneWindowZero ==
    (/\ scan.pc = "returned" /\ InDoc(doc, scan.picture_item)
     /\ (WBefore > 0 /\ WAfter = 0) \/ (WBefore = 0 /\ WAfter > 0))
        => scan.result = WindowContext(doc, scan.picture_item, WBefore, WAfter)

\* C4: a batch picture with a provenance on a known page of positive area is
\* selected iff its area fraction is at least the threshold; an excluded one
\* gets no annotation, no request and is not yielded.
C4_AreaThreshold ==
    Filtered =>
        \A i \in 1..Len(gen.batch) :
            LET r == gen.batch[i] IN
            Evaluable(r) =>
                /\ Occurs(r, gen.pictures) <=> MeetsThreshold(r)
                /\ ~MeetsThreshold(r) =>
                      /\ annotations[r] = hist.start[r]
                      /\ \A j \in 1..Len(requests) : requests[j].image # ImageOf(r)
                      /\ ~Occurs(r, out)

C4_Witness ==
    /\ Filtered /\ gen.pc = "done"
    /\ Occurs(4, gen.batch) /\ Evaluable(4)
    /\ prov[4][1].bbox_area * 100 = options.picture_area_threshold * PageArea(4)
    /\ options.picture_area_threshold > 0
    /\ Occurs(4, out) /\ Len(annotations[4]) = 1

\* C5: a batch picture without provenance, or on a page doc.pages does not
\* hold, or on a page of area zero, is selected whatever the threshold.
C5_DefaultAccept ==
    Filtered =>
        \A i \in 1..Len(gen.batch) :
            LET r == gen.batch[i] IN
            ~Evaluable(r) =>
                /\ Occurs(r, gen.pictures)
                /\ gen.pc = "done" => Occurs(r, out) /\ Len(annotations[r]) = Len(hist.start[r]) + 1

C5_Witness ==
    /\ Filtered /\ gen.pc = "done"
    /\ options.picture_area_threshold = 100
    /\ gen.batch = <<2, 6, 7>>
    /\ Len(prov[2]) = 0 /\ prov[6][1].page_no \notin DOMAIN pages /\ PageArea(7) = 0
    /\ out = <<2, 6, 7>>

\* C6: a disabled model yields the item of every batch element, in order and
\* once each, whatever the options; it annotates nothing, extracts no context
\* and issues no request.
C6_DisabledPassthrough ==
    (model.state = "constructed" /\ ~model.enabled /\ gen.pc # "none") =>
        /\ gen.pc \in {"created", "yielded", "done"}
        /\ IsPrefix(out, gen.batch)
        /\ gen.pc = "done" => out = gen.batch
        /\ annotations = hist.start
        /\ requests = <<>>
        /\ gen.image_context_map = <<>> /\ gen.pictures = <<>>

C6_Witness ==
    /\ model.state = "constructed" /\ ~model.enabled /\ gen.pc = "done"
    /\ gen.batch = <<4, 5, 6>> /\ out = gen.batch
    /\ ~PassesFilter(4) /\ UseContext

\* C7: a remote backend constructed with enabled and without
\* enable_remote_services ends in OperationNotAllowed before any request; no
\* instance created without enable_remote_services ever issues a request;
\* with enabled false the construction succeeds.
C7_RemoteGate ==
    /\ (model.state # "unconstructed" /\ model.enabled /\ ~model.enable_remote_services)
          => model.state = "OperationNotAllowed"
    /\ model.state = "OperationNotAllowed"
          => gen.pc = "none" /\ calls = 0 /\ requests = <<>>
    /\ ~model.enable_remote_services => requests = <<>>
    /\ (model.state # "unconstructed" /\ ~model.enabled) => model.state = "constructed"

C7_Witness ==
    /\ model.state = "OperationNotAllowed"
    /\ model.class = Llama
    /\ model.enabled /\ ~model.enable_remote_services

\* C8: in the Llama Stack backend a non-success response is logged and raised
\* before a description is yielded for its image: it is the only request for
\* that image and the last request of the call.
C8_HttpErrorIsFatal ==
    model.class = Llama =>
        \A i \in 1..Len(requests) :
            requests[i].response.status = "http_error" =>
                /\ i = Len(requests)
                /\ gen.pc = "raised" /\ gen.error = "HTTPError"
                /\ log = <<requests[i].response.content>>
                /\ Len(hist.descs) = i - 1 /\ gen.idx = i - 1 /\ Len(out) = i - 1
                /\ Cardinality({j \in 1..Len(requests) :
                                   requests[j].image = requests[i].image}) = 1
                /\ annotations[gen.pictures[i]] = hist.start[gen.pictures[i]]

C8_Witness ==
    /\ model.class = Llama
    /\ gen.pc = "raised" /\ gen.error = "HTTPError"
    /\ Len(gen.pictures) = 3 /\ Len(requests) = 2
    /\ requests[2].response.status = "http_error"
    /\ log = <<requests[2].response.content>>

\* C9: annotations are append-only across calls: every step leaves each
\* picture's list a prefix of the new one and adds at most one entry; a
\* picture carries at least one annotation per completed call that selected
\* it, and exactly that many when every call ran to completion.
C9_AnnotationsGrowOnly ==
    \A r \in PictureRefs :
        /\ IsPrefix(annotations[r], annotations'[r])
        /\ Len(annotations'[r]) <= Len(annotations[r]) + 1

C9_Counts ==
    \A r \in PictureRefs :
        /\ Len(annotations[r]) >= hist.selected[r]
        /\ (hist.all_completed /\ gen.pc \in {"none", "done"})
              => Len(annotations[r]) = hist.selected[r]

\* C9: both parts, over every behaviour with up to MaxCalls calls: annotations
\* only grow by appends, and count the completed calls that selected the picture.
C9_AppendOnly == [][C9_AnnotationsGrowOnly]_vars /\ []C9_Counts

C9_Witness ==
    /\ gen.pc = "done" /\ hist.all_completed /\ calls = 2
    /\ hist.selected[2] = 2 /\ Len(annotations[2]) = 2
    /\ annotations[2][1].text # annotations[2][2].text

\* C10: an enabled call yields a prefix of the filter-passing batch pictures,
\* in batch order, and all of them once it has run to completion.
C10_OutputSequence ==
    /\ Filtered => IsPrefix(out, Passing(gen.batch))
    /\ (Filtered /\ gen.pc = "done") => out = Passing(gen.batch)
    /\ (model.enabled /\ ~Filtered) => out = <<>>

C10_Witness ==
    /\ Filtered /\ gen.pc = "done"
    /\ gen.batch = <<2, 4, 6>> /\ ~PassesFilter(4)
    /\ out = <<2, 6>>

\* C11: with both window sizes 0 _get_surrounding_text is never invoked and
\* the descriptions come from _annotate_images; with a size > 0 it is invoked
\* once per filter-passing picture, in batch order, never for a filtered one,
\* and the descriptions come from _annotate_with_context.
C11_Dispatch ==
    /\ (Filtered /\ WBefore = 0 /\ WAfter = 0) =>
          /\ gen.surrounding_text_calls = <<>>
          /\ gen.dispatch = "_annotate_images"
          /\ \A i \in 1..Len(gen.image_context_map) : gen.image_context_map[i][2] = <<>>
    /\ (Filtered /\ (WBefore > 0 \/ WAfter > 0)) =>
          /\ gen.surrounding_text_calls = Passing(gen.batch)
          /\ gen.dispatch = "_annotate_with_context"
    /\ (model.enabled /\ gen.pc = "raised" /\ gen.error = "AssertionError") =>
          /\ \A i \in 1..Len(gen.surrounding_text_calls) :
                PassesFilter(gen.surrounding_text_calls[i])
          /\ (WBefore = 0 /\ WAfter = 0) => gen.surrounding_text_calls = <<>>
    /\ ~model.enabled => gen.surrounding_text_calls = <<>> /\ gen.dispatch = "none"

C11_Witness ==
    /\ Filtered /\ gen.pc = "done"
    /\ WBefore > 0 /\ WAfter = 0
    /\ gen.batch = <<2, 4, 6>> /\ ~PassesFilter(4)
    /\ gen.surrounding_text_calls = <<2, 6>>
    /\ gen.dispatch = "_annotate_with_context"

\* C12: for every remote backend (Api and Llama Stack), when a window size is
\* > 0 and the context extracted for a picture is non-empty, the prompt of the
\* request for that picture is the context, a newline, then the base prompt.
C12_ContextInPrompt ==
    \A i \in 1..Len(requests) :
        (model.enabled /\ (WBefore > 0 \/ WAfter > 0)
            /\ gen.image_context_map[i][2] # <<>>) =>
            requests[i].prompt = gen.image_context_map[i][2] \o <<"\n">> \o Prompt

\* C13: every description annotation appended by a call has a non-empty
\* text, whatever string the backend returned.
C13_NonEmptyText ==
    \A r \in PictureRefs :
        \A j \in 1..Len(annotations[r]) :
            j > Len(hist.start[r]) => Len(annotations[r][j].text) > 0

\* the requests the backend answered with an error
Failed == {k \in 1..Len(requests) : requests[k].response.status \in {"http_error", "malformed"}}

\* C14: when the backend raises at the k-th filter-passing picture the
\* exception leaves __call__ unchanged, no picture at a position >= k is
\* annotated or yielded, no request is issued for a position > k, and the
\* pictures before k keep the annotation they were given.
C14_AbortOnFailure ==
    \A k \in Failed :
        LET sel == Passing(gen.batch) IN
        /\ gen.pc = "raised"
        /\ gen.error = (IF requests[k].response.status = "http_error"
                        THEN "HTTPError" ELSE "ValidationError")
        /\ k = Len(requests)
        /\ requests[k].image = ImageOf(sel[k])
        /\ out = SubSeq(sel, 1, k - 1)
        /\ \A i \in 1..Len(sel) :
              annotations[sel[i]] =
                  IF i < k
                  THEN Append(hist.start[sel[i]],
                              [text |-> hist.descs[i], provenance |-> model.provenance])
                  ELSE hist.start[sel[i]]

C14_Witness ==
    /\ Failed = {2}
    /\ Len(Passing(gen.batch)) = 3
    /\ gen.error = "ValidationError"
    /\ Len(annotations[Passing(gen.batch)[1]]) = Len(hist.start[Passing(gen.batch)[1]]) + 1

RECURSIVE AppendedIn(_)
\* the number of annotations the pictures of S gained since the call began
AppendedIn(S) ==
    IF S = {} THEN 0
    ELSE LET r == CHOOSE x \in S : TRUE IN
         (Len(annotations[r]) - Len(hist.start[r])) + AppendedIn(S \ {r})

\* C15: after an enabled call consumed to its end every filter-passing batch
\* picture has gained exactly one annotation, holding the description the
\* backend gave for it and the model's provenance tag; a yielded picture
\* already carries its annotation, and at every point the number of appended
\* annotations is the number of yielded pictures or one more.
C15_MergePostcondition ==
    model.enabled =>
        LET sel == Passing(gen.batch) IN
        /\ gen.pc = "done" =>
              /\ out = sel
              /\ \A i \in 1..Len(sel) :
                    /\ hist.descs[i] = BackendOutcome(model.class, requests[i].response).text
                    /\ annotations[sel[i]] =
                          Append(hist.start[sel[i]],
                                 [text |-> hist.descs[i], provenance |-> "not-implemented"])
        /\ \A i \in 1..Len(out) :
              /\ Len(annotations[out[i]]) = Len(hist.start[out[i]]) + 1
              /\ annotations[out[i]][Len(annotations[out[i]])].provenance = model.provenance
        /\ AppendedIn(PictureRefs) \in {Len(out), Len(out) + 1}

C15_Witness ==
    /\ model.enabled /\ gen.pc = "done"
    /\ Len(Passing(gen.batch)) = 3
    /\ \E i \in 1..3 : Len(annotations[Passing(gen.batch)[i]]) = 2
    /\ AppendedIn(PictureRefs) = 3
    /\ model.provenance = "not-implemented"

\* the requests whose response has not arrived
InFlight == {i \in 1..Len(requests) : requests[i].response = NoResponse}

C16_Counts ==
    model.enabled =>
        /\ gen.pc = "created" =>
              requests = <<>> /\ annotations = hist.start /\ out = <<>>
        /\ gen.pc \in {"yielded", "done"} =>
              /\ Len(requests) = Len(out)
              /\ AppendedIn(PictureRefs) = Len(out)
              /\ InFlight = {}
        /\ gen.pc = "request" =>
              /\ Len(requests) = Len(out) + 1
              /\ AppendedIn(PictureRefs) = Len(out)
              /\ InFlight = {Len(requests)}
        /\ Cardinality(InFlight) <= 1
        /\ gen.pc # "none" =>
              \A i \in 1..Len(requests) :
                  requests[i].image = ImageOf(Passing(gen.batch)[i])

C16_OnlyAPullRequests ==
    requests' # requests =>
        \/ /\ gen.pc = "request"
           /\ Len(requests') = Len(requests)
           /\ gen'.pc \in {"yielded", "raised"}
        \/ /\ gen.pc \in {"created", "yielded"}
           /\ requests' = Append(requests, requests'[Len(requests')])
           /\ gen'.pc = "request"

\* C16: before the first pull no request is issued and nothing is annotated;
\* after k outputs exactly k requests have been issued and k annotations
\* appended; at most one request is in flight; the requests follow batch
\* order; a request is issued only by a pull, so a consumer that stops after k
\* outputs leaves the remaining pictures unrequested and unannotated.
C16_PullBased == []C16_Counts /\ [][C16_OnlyAPullRequests]_vars

C16_Witness ==
    /\ model.enabled /\ gen.pc = "yielded"
    /\ Len(gen.pictures) = 3
    /\ Len(out) = 2 /\ Len(requests) = 2
    /\ annotations[gen.pictures[3]] = hist.start[gen.pictures[3]]

C17_FrameStep ==
    /\ doc' = doc /\ pages' = pages /\ prov' = prov /\ options' = options
    /\ \A r \in PictureRefs :
          annotations'[r] # annotations[r] =>
              /\ model.enabled
              /\ Occurs(r, gen.batch)
              /\ PassesFilter(r)

C17_OutsideBatch ==
    \A r \in PictureRefs :
        (~model.enabled \/ ~Occurs(r, gen.batch) \/ ~PassesFilter(r)) =>
            annotations[r] = hist.start[r]

\* C17: a call changes nothing but the annotation lists of the batch pictures
\* that pass the filter: the document's items and their order, the pages, the
\* provenances and the options stay as they are, and a call never annotates a
\* picture outside its own batch, so calls on disjoint batches do not touch
\* each other's pictures.
C17_Frame == []C17_OutsideBatch /\ [][C17_FrameStep]_vars

C17_Witness ==
    /\ model.enabled /\ calls = 2 /\ gen.pc = "done"
    /\ gen.batch = <<6>>
    /\ Len(annotations[2]) = 1 /\ Len(annotations[6]) = 1
    /\ annotations[4] = <<>> /\ annotations[7] = <<>>
    /\ hist.start[2] = annotations[2]

\* C18: an enabled call on a batch with an element that is not a picture
\* fails with an assertion error on the first pull, before any request is
\* issued and before any picture is annotated or yielded, the pictures that
\* precede the offending element included.
C18_NonPictureElement ==
    (/\ model.enabled
     /\ gen.pc \notin {"none", "created"}
     /\ \E i \in 1..Len(gen.batch) : ItemOf(gen.batch[i]).kind # "picture") =>
        /\ gen.pc = "raised"
        /\ gen.error = "AssertionError"
        /\ requests = <<>>
        /\ out = <<>>
        /\ annotations = hist.start

C18_Witness ==
    /\ model.enabled
    /\ gen.pc = "raised" /\ gen.error = "AssertionError"
    /\ gen.batch = <<2, 4, 5>>
    /\ PassesFilter(2) /\ PassesFilter(4)
    /\ requests = <<>> /\ annotations[2] = hist.start[2]

\* the non-empty texts of the items that follow picture p among the first i
\* items of d (none if p is not among them)
FollowingTextsUpTo(d, p, i) ==
    IF \E j \in 1..i : d[j] = p
    THEN NonBlankTextsOf(SubSeq(d, PosIn(d, p) + 1, i))
    ELSE <<>>

\* the first item of d at which m following texts have been seen, the last
\* item if there is none
FirstCapped(d, p, m) ==
    IF \E i \in 1..Len(d) : Len(FollowingTextsUpTo(d, p, i)) >= m
    THEN CHOOSE i \in 1..Len(d) :
            /\ Len(FollowingTextsUpTo(d, p, i)) >= m
            /\ \A j \in 1..(i - 1) : Len(FollowingTextsUpTo(d, p, j)) < m
    ELSE Len(d)

\* the same, the picture p itself not counted as a place to stop
FirstCappedNonTarget(d, p, m) ==
    IF \E i \in 1..Len(d) : d[i] # p /\ Len(FollowingTextsUpTo(d, p, i)) >= m
    THEN CHOOSE i \in 1..Len(d) :
            /\ d[i] # p /\ Len(FollowingTextsUpTo(d, p, i)) >= m
            /\ \A j \in 1..(i - 1) : d[j] = p \/ Len(FollowingTextsUpTo(d, p, j)) < m
    ELSE Len(d)

\* the newline-separated fragments of a context string
RECURSIVE SplitLines(_)
SplitLines(t) ==
    IF \E k \in 1..Len(t) : t[k] = "\n"
    THEN LET k == CHOOSE k \in 1..Len(t) : t[k] = "\n" /\ \A j \in 1..(k - 1) : t[j] # "\n"
         IN <<SubSeq(t, 1, k - 1)>> \o SplitLines(SubSeq(t, k + 1, Len(t)))
    ELSE <<t>>

Fragments(t) == IF t = <<>> THEN <<>> ELSE SplitLines(t)

\* the parts of C19 about the buffers and the result
C19_Buffers ==
    /\ Len(scan.st.text_items_after_picture) <= WAfter
    /\ scan.st.after_count = Len(scan.st.text_items_after_picture)
    /\ scan.st.text_items_after_picture =
          TakeFirst(FollowingTextsUpTo(doc, scan.picture_item, scan.st.visited), WAfter)
    /\ scan.pc = "returned" =>
          /\ Len(Fragments(scan.result)) <= WBefore + WAfter
          /\ \A i \in 1..Len(Fragments(scan.result)) : NonBlank(Fragments(scan.result)[i])

C20_EmptyContextPrompt ==
    \A i \in 1..Len(requests) :
        (model.class = "PictureDescriptionApiModel" /\ model.enabled) =>
            IF WBefore > 0 \/ WAfter > 0
            THEN /\ requests[i].prompt = gen.image_context_map[i][2] \o <<"\n">> \o Prompt
                 /\ gen.image_context_map[i][2] = <<>> =>
                       /\ requests[i].prompt = <<"\n">> \o Prompt
                       /\ requests[i].prompt # Prompt
            ELSE requests[i].prompt = Prompt

C20_Witness ==
    /\ model.class = "PictureDescriptionApiModel" /\ model.enabled
    /\ WBefore = 0 /\ WAfter = 1
    /\ Len(requests) = 2
    /\ gen.image_context_map[1][2] # <<>>
    /\ gen.image_context_map[2][2] = <<>>
    /\ requests[2].prompt = <<"\n", "P">>
    /\ requests[2].response.status = "ok"

====
